---- MODULE Spec2Model ----
(***************************************************************************)
(* Model of app_horizontal_dashboard.py: the Streamlit script that loads   *)
(* dashboard_data.csv, derives the key indicators of a (year, country)     *)
(* selection, reshapes the age columns, ranks countries and regions and    *)
(* colours every bar through get_dynamic_color.                            *)
(*                                                                         *)
(* Floats are modelled as exact rationals n/d extended with NaN, +inf and  *)
(* -inf; None is a value of its own.  Every number the model feeds in is   *)
(* an integer, so the only rounding of the program that is not reproduced  *)
(* bit for bit is that of a quotient that is not representable; the        *)
(* comparisons the code makes on such quotients (against the stops of the  *)
(* colour scale) agree with the rational ones because a correctly rounded  *)
(* quotient k/5 is the float the literal 0.2, 0.4, ... denotes.            *)
(***************************************************************************)
EXTENDS Integers, Sequences, FiniteSets, TLC

VARIABLES
    df,                     \* module global df: the loaded rows (line 18)
    df_columns,             \* df.columns beyond country, year, crude_mortality,
                            \* population and the region
    pc,                     \* the section the script is at; it stays there
                            \* when the section raises
    selected_year,          \* line 73
    selected_country,       \* line 80
    latest,                 \* line 83
    previous,               \* line 84
    filtered_data_for_year, \* lines 90-95
    main_line_color,        \* line 99
    indicators,             \* the three st.metric calls, lines 106-151
    age_data,               \* line 170-183
    top10,                  \* line 234
    top10_abs,              \* line 276
    regional_avg_df,        \* lines 298-299
    shown,                  \* what each panel handed to Streamlit
    error,                  \* the exception that ended the run, or "none"
    color_args,             \* arguments of a get_dynamic_color call
    color_out               \* its result

vars == <<df, df_columns, pc, selected_year, selected_country,
          latest, previous, filtered_data_for_year, main_line_color,
          indicators, age_data, top10, top10_abs, regional_avg_df, shown,
          error, color_args, color_out>>

-----------------------------------------------------------------------------
(* Python / numpy floats *)

RECURSIVE Gcd(_, _)
Gcd(a, b) == IF b = 0 THEN a ELSE Gcd(b, a % b)

Abs(x) == IF x < 0 THEN -x ELSE x

\* the float n/d, d # 0, in lowest terms with a positive denominator
Fin(n, d) ==
    LET s == IF d < 0 THEN -1 ELSE 1
        g == Gcd(Abs(n), Abs(d))
    IN  [k |-> "fin", n |-> (s * n) \div g, d |-> (s * d) \div g]

Num(i) == [k |-> "fin", n |-> i, d |-> 1]
NaN  == [k |-> "nan",  n |-> 0, d |-> 1]
PInf == [k |-> "pinf", n |-> 0, d |-> 1]
NInf == [k |-> "ninf", n |-> 0, d |-> 1]
None == [k |-> "none", n |-> 0, d |-> 1]

IsFin(x) == x.k = "fin"
IsInf(x) == x.k \in {"pinf", "ninf"}
\* pd.isna / pd.notna: None and NaN are missing, the infinities are not
isna(x)  == x.k \in {"none", "nan"}
notna(x) == ~isna(x)

FNeg(x) == CASE x.k = "pinf" -> NInf
             [] x.k = "ninf" -> PInf
             [] x.k = "fin"  -> Fin(-x.n, x.d)
             [] OTHER        -> x

\* sign of a non-NaN float: -1, 0, 1
Sgn(x) == CASE x.k = "pinf" -> 1
            [] x.k = "ninf" -> -1
            [] OTHER        -> IF x.n > 0 THEN 1 ELSE IF x.n < 0 THEN -1 ELSE 0

\* a + b
FAdd(a, b) ==
    CASE a.k = "nan" \/ b.k = "nan"      -> NaN
      [] IsInf(a) /\ IsInf(b)            -> IF a.k = b.k THEN a ELSE NaN
      [] IsInf(a)                        -> a
      [] IsInf(b)                        -> b
      [] OTHER                           -> Fin(a.n * b.d + b.n * a.d, a.d * b.d)

\* a - b
FSub(a, b) == FAdd(a, FNeg(b))

\* a * b
FMul(a, b) ==
    CASE a.k = "nan" \/ b.k = "nan"      -> NaN
      [] IsInf(a) \/ IsInf(b)            ->
            IF Sgn(a) * Sgn(b) = 0 THEN NaN
            ELSE IF Sgn(a) * Sgn(b) > 0 THEN PInf ELSE NInf
      [] OTHER                           -> Fin(a.n * b.n, a.d * b.d)

\* a / b on numpy floats: a zero divisor gives inf or NaN, never an exception
FDiv(a, b) ==
    CASE a.k = "nan" \/ b.k = "nan"      -> NaN
      [] IsInf(a) /\ IsInf(b)            -> NaN
      [] IsInf(a)                        ->
            IF Sgn(b) >= 0 THEN a ELSE FNeg(a)
      [] IsInf(b)                        -> Num(0)
      [] b.n = 0                         ->
            IF a.n = 0 THEN NaN ELSE IF a.n > 0 THEN PInf ELSE NInf
      [] OTHER                           -> Fin(a.n * b.d, a.d * b.n)

\* a == b, a < b, a <= b ...: every comparison with NaN is False
FEq(a, b) ==
    CASE a.k = "nan" \/ b.k = "nan"      -> FALSE
      [] IsInf(a) \/ IsInf(b)            -> a.k = b.k
      [] OTHER                           -> a.n * b.d = b.n * a.d

FLt(a, b) ==
    CASE a.k = "nan" \/ b.k = "nan"      -> FALSE
      [] a.k = "pinf" \/ b.k = "ninf"    -> FALSE
      [] a.k = "ninf" \/ b.k = "pinf"    -> TRUE
      [] OTHER                           -> a.n * b.d < b.n * a.d

FLe(a, b) == FLt(a, b) \/ FEq(a, b)
FGe(a, b) == FLe(b, a)
FGt(a, b) == FLt(b, a)

\* the builtins min(a, b) and max(a, b): the first argument is kept unless
\* the second compares strictly smaller (larger)
PyMin(a, b) == IF FLt(b, a) THEN b ELSE a
PyMax(a, b) == IF FGt(b, a) THEN b ELSE a

\* int(x) of a finite float: truncation toward zero
IntTrunc(x) == IF x.n >= 0 THEN x.n \div x.d ELSE -((-x.n) \div x.d)

-----------------------------------------------------------------------------
(* Colour scale and get_dynamic_color, lines 24-62 *)

\* a colour string "#RRGGBB" is the sequence of its six hex digits; the case
\* of the letters (the scale writes "E0", '%02x' prints "e0") is not kept
Hex(a, b, c, d, e, f) == <<a, b, c, d, e, f>>

BLUE_COLOR_SCALE ==
    << [stop |-> Fin(0, 5), color |-> Hex(14, 0, 15, 2, 15, 7)],
       [stop |-> Fin(1, 5), color |-> Hex(11, 3, 14, 0, 15, 2)],
       [stop |-> Fin(2, 5), color |-> Hex(8, 0, 12, 12, 14, 11)],
       [stop |-> Fin(3, 5), color |-> Hex(4, 13, 11, 8, 14, 0)],
       [stop |-> Fin(4, 5), color |-> Hex(1, 15, 7, 7, 11, 4)],
       [stop |-> Fin(5, 5), color |-> Hex(0, 10, 3, 11, 5, 7)] >>

\* int(hex_color[i:i+2], 16) for i in (0, 2, 4)
hex_to_rgb(hex_color) ==
    << 16 * hex_color[1] + hex_color[2],
       16 * hex_color[3] + hex_color[4],
       16 * hex_color[5] + hex_color[6] >>

\* the hex digits of n > 0, most significant first
RECURSIVE HexDigits(_)
HexDigits(n) == IF n = 0 THEN <<>> ELSE Append(HexDigits(n \div 16), n % 16)

\* '%02x' % n: at least two digits, more when n > 255, a sign (-1 here)
\* in front of a negative n
Fmt02x(n) ==
    IF n < 0 THEN
        IF -n < 16 THEN <<-1, -n>> ELSE <<-1>> \o HexDigits(-n)
    ELSE IF n < 16 THEN <<0, n>>
    ELSE HexDigits(n)

rgb_to_hex(rgb_color) ==
    Fmt02x(rgb_color[1]) \o Fmt02x(rgb_color[2]) \o Fmt02x(rgb_color[3])

\* line 35 returning the last stop instead of the middle one
FallbackLast(color_scale) ==
    IF color_scale # <<>>
    THEN color_scale[Len(color_scale)].color
    ELSE Hex(1, 15, 7, 7, 11, 4)

\* line 35: the fallback colour
FallbackColor(color_scale) ==
    IF color_scale # <<>>
    THEN color_scale[(Len(color_scale) \div 2) + 1].color
    ELSE Hex(1, 15, 7, 7, 11, 4)

\* line 37 without the clamp of line 38
NormalizedValueNoClamp(value, min_val, max_val) ==
    FDiv(FSub(value, min_val), FSub(max_val, min_val))

\* lines 37-38
NormalizedValue(value, min_val, max_val) ==
    PyMax(Num(0), PyMin(Num(1),
          FDiv(FSub(value, min_val), FSub(max_val, min_val))))

\* line 41 with > in place of >= on the lower stop
InBracketStrict(nv, color_scale, i) ==
    FGt(nv, color_scale[i].stop) /\ FLe(nv, color_scale[i + 1].stop)

\* line 41
InBracket(nv, color_scale, i) ==
    FGe(nv, color_scale[i].stop) /\ FLe(nv, color_scale[i + 1].stop)

\* lines 42-61 for the bracket i
Interpolate(nv, color_scale, i) ==
    LET lower_bound_val == color_scale[i].stop
        upper_bound_val == color_scale[i + 1].stop
        rgb1 == hex_to_rgb(color_scale[i].color)
        rgb2 == hex_to_rgb(color_scale[i + 1].color)
        t == IF FEq(FSub(upper_bound_val, lower_bound_val), Num(0))
             THEN Num(0)
             ELSE FDiv(FSub(nv, lower_bound_val),
                       FSub(upper_bound_val, lower_bound_val))
        ch(j) == IntTrunc(FAdd(Num(rgb1[j]), FMul(t, Num(rgb2[j] - rgb1[j]))))
    IN  rgb_to_hex(<<ch(1), ch(2), ch(3)>>)

\* line 34
IsFallback(value, min_val, max_val) ==
    isna(value) \/ FEq(FSub(max_val, min_val), Num(0))

\* lines 33-62
get_dynamic_color(value, min_val, max_val, color_scale) ==
    IF IsFallback(value, min_val, max_val)
    THEN FallbackColor(color_scale)
    ELSE LET nv == NormalizedValue(value, min_val, max_val)
             hits == {i \in 1 .. (Len(color_scale) - 1) :
                          InBracket(nv, color_scale, i)}
         IN  IF hits # {}
             THEN Interpolate(nv, color_scale,
                              CHOOSE i \in hits : \A j \in hits : i <= j)
             ELSE color_scale[Len(color_scale)].color

-----------------------------------------------------------------------------
(* The data frame *)

\* the slider's default year, line 73
DefaultYear == 2019

\* rows per csv file
MaxRows == 2

\* a missing world_regions_according_to_owid cell
NoRegion == "NaN"

\* column names are sequences of the pieces the script looks for
RatioCol == <<"male_to_female_suicide_death_rate_ratio_age_standardized">>
AgeCol(sex, range) == <<"death_rate_", sex, "aged_">> \o range \o <<"_year_olds">>

\* "piece" in c
Contains(c, piece) == \E i \in 1 .. Len(c) : c[i] = piece

\* one row of the frame; extra holds the cells of the columns df_columns
\* names, in their order
Row(country, year, mortality, population, region, extra) ==
    [country |-> country, year |-> year, crude_mortality |-> mortality,
     population |-> population,
     world_regions_according_to_owid |-> region, extra |-> extra]

\* position of a piece in a column name, of a column in df.columns
IndexOf(c, piece) == CHOOSE i \in 1 .. Len(c) : c[i] = piece

\* lines 9-10: the rows of the csv file whose crude_mortality is present (the
\* files of the model always carry a country and a year)
load_data(csv) == SelectSeq(csv, LAMBDA r : notna(r.crude_mortality))

Range(s) == {s[i] : i \in 1 .. Len(s)}

\* Series.min() and Series.max() of a column of finite floats; NaN when empty
RECURSIVE SeriesMin(_)
SeriesMin(s) ==
    IF s = <<>> THEN NaN
    ELSE IF Len(s) = 1 THEN s[1]
    ELSE LET m == SeriesMin(Tail(s)) IN IF FLt(m, s[1]) THEN m ELSE s[1]

RECURSIVE SeriesMax(_)
SeriesMax(s) ==
    IF s = <<>> THEN NaN
    ELSE IF Len(s) = 1 THEN s[1]
    ELSE LET m == SeriesMax(Tail(s)) IN IF FGt(m, s[1]) THEN m ELSE s[1]

\* df[name]: the cells of a column
Column(rows, name) == [i \in 1 .. Len(rows) |-> rows[i][name]]

\* lines 21-22
min_mortality(d) == SeriesMin(Column(d, "crude_mortality"))
max_mortality(d) == SeriesMax(Column(d, "crude_mortality"))

-----------------------------------------------------------------------------
(* Sorting *)

\* DataFrame.sort_values(kind="quicksort") on the keys of the rows S: numpy's
\* quicksort is not stable, so every order that is sorted by key is an order
\* the build can produce.  Each result is a sequence of row numbers.
RECURSIVE SortedOrders(_, _, _)
SortedOrders(S, keys, ascending) ==
    IF S = {} THEN {<<>>}
    ELSE LET firsts == {i \in S : \A j \in S :
                            IF ascending THEN ~FLt(keys[j], keys[i])
                                         ELSE ~FGt(keys[j], keys[i])}
         IN  UNION {{<<i>> \o t : t \in SortedOrders(S \ {i}, keys, ascending)} :
                    i \in firsts}

\* the rows of a frame in the order ord
Reorder(rows, ord) == [i \in 1 .. Len(ord) |-> rows[ord[i]]]

\* DataFrame.head(n)
head(rows, n) == SubSeq(rows, 1, IF Len(rows) < n THEN Len(rows) ELSE n)

-----------------------------------------------------------------------------
(* Sidebar and filters, lines 70-99 *)

\* the names the script binds anywhere (imports, assignments, with ... as,
\* for targets); a name outside this set raises NameError when it is read
GlobalNames ==
    {"st", "pd", "px", "go", "load_data", "df", "min_mortality",
     "max_mortality", "BLUE_COLOR_SCALE", "get_dynamic_color", "selected_year",
     "df_by_year", "available_countries", "selected_country", "latest",
     "previous", "country_trend_df", "filtered_data_for_year",
     "current_crude_mortality", "main_line_color", "col1", "col2", "col3",
     "crude_mortality_delta", "current_m_f_ratio", "previous_m_f_ratio",
     "m_f_ratio_delta", "current_total_suicides", "previous_total_suicides",
     "total_suicides_delta", "fig", "age_cols", "age_data", "age_labels",
     "col", "label", "bar_colors_age", "col4", "col5", "col6", "map_fig",
     "top10", "bar_colors_top10", "region_data", "pie_colors",
     "col_abs_suicides", "col_regional_avg", "top10_abs", "abs_suicides_min",
     "abs_suicides_max", "bar_colors_abs", "regional_avg_df",
     "regional_min_mortality", "regional_max_mortality", "bar_colors_regional"}

Panels == {"sidebar", "key_indicators", "trend", "age", "ratio_trend", "map",
           "top10", "share", "top10_abs", "regional_avg", "download"}

Years(d) == {d[i].year : i \in 1 .. Len(d)}
MinYear(d) == CHOOSE y \in Years(d) : \A z \in Years(d) : y <= z
MaxYear(d) == CHOOSE y \in Years(d) : \A z \in Years(d) : z <= y

\* line 74
df_by_year(d, year) == SelectSeq(d, LAMBDA r : r.year = year)

\* line 76
available_countries(d, year) ==
    {df_by_year(d, year)[i].country : i \in 1 .. Len(df_by_year(d, year))}

\* line 83 (and line 84 with year - 1)
CountryYear(d, country, year) ==
    SelectSeq(d, LAMBDA r : r.country = country /\ r.year = year)

\* crude_mortality * population / 100000
EstimateFloat(r) ==
    FDiv(FMul(r.crude_mortality, r.population), Num(100000))

\* lines 90-92
YearSlice(d, year) ==
    SelectSeq(d, LAMBDA r : r.year = year /\ notna(r.population))

\* line 95: Series.astype(int) refuses a column that holds inf or NaN
AstypeIntRaises(rows) ==
    \E i \in 1 .. Len(rows) : ~IsFin(EstimateFloat(rows[i]))

\* int(x) and astype(int) of a finite float
EstimateInt(x) == IntTrunc(x)

\* lines 94-95: the slice with its estimated_total_suicides column; an empty
\* slice gets no such column
WithEstimate(rows) ==
    [i \in 1 .. Len(rows) |->
        rows[i] @@ ("estimated_total_suicides" :>
                        Num(EstimateInt(EstimateFloat(rows[i]))))]

NoIndicators ==
    [crude_value |-> None, crude_delta |-> None,
     ratio_value |-> None, ratio_delta |-> None,
     total_value |-> None, total_delta |-> None]

\* lines 73-79
SidebarYear ==
    /\ pc = "sidebar_year"
    /\ error = "none"
    /\ IF df = <<>>
       THEN \* int(df["year"].min()) of an empty column is int(NaN)
            /\ error' = "ValueError"
            /\ pc' = pc
            /\ UNCHANGED <<selected_year, shown>>
       ELSE \E year \in MinYear(df) .. MaxYear(df) :
               /\ selected_year' = year
               /\ IF available_countries(df, year) = {}
                  THEN /\ shown' = [shown EXCEPT !["sidebar"] = "error"]
                       /\ pc' = "stopped"
                  ELSE /\ shown' = shown
                       /\ pc' = "sidebar_country"
               /\ error' = error
    /\ UNCHANGED <<df, df_columns, selected_country, latest, previous,
                   filtered_data_for_year, main_line_color, indicators,
                   age_data, top10, top10_abs, regional_avg_df, color_args,
                   color_out>>

\* lines 98-99
MainLineColor(d, lat) ==
    get_dynamic_color(
        IF lat # <<>> THEN lat[1].crude_mortality
        ELSE FDiv(FAdd(min_mortality(d), max_mortality(d)), Num(2)),
        min_mortality(d), max_mortality(d), BLUE_COLOR_SCALE)

\* lines 80-99
SidebarCountry ==
    /\ pc = "sidebar_country"
    /\ error = "none"
    /\ \E country \in available_countries(df, selected_year) :
          /\ selected_country' = country
          /\ latest' = CountryYear(df, country, selected_year)
          /\ previous' = CountryYear(df, country, selected_year - 1)
    /\ LET slice == YearSlice(df, selected_year)
       IN  IF slice # <<>> /\ AstypeIntRaises(slice)
           THEN /\ filtered_data_for_year' = slice
                /\ error' = "IntCastingNaNError"
                /\ pc' = pc
                /\ UNCHANGED main_line_color
           ELSE /\ filtered_data_for_year' =
                       IF slice # <<>> THEN WithEstimate(slice) ELSE slice
                /\ main_line_color' = MainLineColor(df, latest')
                /\ pc' = "key_indicators"
                /\ error' = error
    /\ UNCHANGED <<df, df_columns, selected_year, indicators, age_data, top10,
                   top10_abs, regional_avg_df, shown, color_args, color_out>>

-----------------------------------------------------------------------------
(* Key indicators, lines 102-151 *)

\* x is not None
IsNotNone(x) == x.k # "none"

\* line 107
crude_mortality_delta(lat, prev) ==
    IF prev # <<>> /\ lat # <<>>
    THEN FSub(lat[1].crude_mortality, prev[1].crude_mortality)
    ELSE None

\* line 117 (and line 118 for previous)
m_f_ratio(rows, columns) ==
    IF rows # <<>> THEN rows[1].extra[IndexOf(columns, RatioCol)] ELSE None

\* lines 120-122
m_f_ratio_delta(lat, prev, columns) ==
    IF IsNotNone(m_f_ratio(lat, columns)) /\ IsNotNone(m_f_ratio(prev, columns))
    THEN FSub(m_f_ratio(lat, columns), m_f_ratio(prev, columns))
    ELSE None

\* the guard of lines 135 and 139
HasEstimate(rows) ==
    /\ rows # <<>>
    /\ notna(rows[1].crude_mortality)
    /\ notna(rows[1].population)

\* int(float) of lines 136 and 140: the exception it raises, or "none"
IntRaises(x) ==
    CASE IsInf(x)     -> "OverflowError"
      [] x.k = "nan"  -> "ValueError"
      [] OTHER        -> "none"

\* lines 134-136 (and 138-140 for previous), when int() does not raise
total_suicides(rows) ==
    IF HasEstimate(rows) THEN Num(EstimateInt(EstimateFloat(rows[1])))
    ELSE None

\* lines 142-144
total_suicides_delta(lat, prev) ==
    IF IsNotNone(total_suicides(lat)) /\ IsNotNone(total_suicides(prev))
    THEN FSub(total_suicides(lat), total_suicides(prev))
    ELSE None

\* the exception of lines 133-151, or "none"
TotalRaises(lat, prev) ==
    IF HasEstimate(lat) /\ IntRaises(EstimateFloat(lat[1])) # "none"
    THEN IntRaises(EstimateFloat(lat[1]))
    ELSE IF HasEstimate(prev) THEN IntRaises(EstimateFloat(prev[1]))
    ELSE "none"

\* lines 106-151: what the three st.metric calls are given; the third is not
\* reached when int() raises
IndicatorsOf(lat, prev, columns) ==
    LET has_ratio == RatioCol \in Range(columns)
        raised == TotalRaises(lat, prev)
    IN  [crude_value |-> IF lat # <<>> THEN lat[1].crude_mortality ELSE None,
         crude_delta |-> crude_mortality_delta(lat, prev),
         ratio_value |-> IF has_ratio THEN m_f_ratio(lat, columns) ELSE None,
         ratio_delta |-> IF has_ratio THEN m_f_ratio_delta(lat, prev, columns)
                         ELSE None,
         total_value |-> IF raised = "none" THEN total_suicides(lat) ELSE None,
         total_delta |-> IF raised = "none"
                         THEN total_suicides_delta(lat, prev) ELSE None]

\* lines 102-151
KeyIndicators ==
    /\ pc = "key_indicators"
    /\ error = "none"
    /\ indicators' = IndicatorsOf(latest, previous, df_columns)
    /\ error' = TotalRaises(latest, previous)
    /\ pc' = IF error' = "none" THEN "trends_col1" ELSE pc
    /\ shown' = [shown EXCEPT !["key_indicators"] =
                     IF error' = "none" THEN "metrics" ELSE "cut"]
    /\ UNCHANGED <<df, df_columns, selected_year, selected_country, latest,
                   previous, filtered_data_for_year, main_line_color, age_data,
                   top10, top10_abs, regional_avg_df, color_args, color_out>>

-----------------------------------------------------------------------------
(* Trends and demographics, lines 155-214 *)

\* lines 159-165
TrendCol1 ==
    /\ pc = "trends_col1"
    /\ error = "none"
    /\ shown' = [shown EXCEPT !["trend"] = "chart"]
    /\ pc' = "trends_col2"
    /\ UNCHANGED <<df, df_columns, selected_year, selected_country, latest,
                   previous, filtered_data_for_year, main_line_color,
                   indicators, age_data, top10, top10_abs, regional_avg_df,
                   error, color_args, color_out>>

\* line 168: the positions in df_columns of the both-sexes age columns
age_cols(columns) ==
    {i \in 1 .. Len(columns) :
        Contains(columns[i], "aged_") /\ Contains(columns[i], "both_sexes")}

\* lines 176-181: the age range between "aged_" and "_year_olds" (its pieces
\* stand for the range joined by en-dashes), or the column name itself
age_label(c) ==
    IF Contains(c, "aged_") /\ Contains(c, "_year_olds")
    THEN SubSeq(c, IndexOf(c, "aged_") + 1, IndexOf(c, "_year_olds") - 1)
    ELSE c

\* line 170: latest[age_cols].T.dropna() keeps the columns no row of latest
\* leaves empty
AgeKept(columns, lat) ==
    {i \in age_cols(columns) : \A r \in 1 .. Len(lat) : notna(lat[r].extra[i])}

\* lines 185-188
bar_colors(values, i) ==
    IF values # <<>>
       /\ ~FEq(FSub(SeriesMax(values), SeriesMin(values)), Num(0))
    THEN get_dynamic_color(values[i], SeriesMin(values), SeriesMax(values),
                           BLUE_COLOR_SCALE)
    ELSE FallbackColor(BLUE_COLOR_SCALE)

\* lines 170-188 for one order ord of the kept columns
AgeSeries(columns, lat, ord) ==
    LET rates == [i \in 1 .. Len(ord) |-> lat[1].extra[ord[i]]]
    IN  [i \in 1 .. Len(ord) |->
            [label |-> age_label(columns[ord[i]]),
             column |-> ord[i],
             rate |-> rates[i],
             color |-> bar_colors(rates, i)]]

\* lines 167-204
AgeCol2 ==
    /\ pc = "trends_col2"
    /\ error = "none"
    /\ IF age_cols(df_columns) # {} /\ latest # <<>>
       THEN IF Len(latest) # 1
            THEN \* line 171: one name for Len(latest) columns
                 /\ error' = "ValueError"
                 /\ pc' = pc
                 /\ UNCHANGED <<age_data, shown>>
            ELSE \E ord \in SortedOrders(AgeKept(df_columns, latest),
                                         latest[1].extra, TRUE) :
                    /\ age_data' = AgeSeries(df_columns, latest, ord)
                    /\ shown' = [shown EXCEPT !["age"] = "chart"]
                    /\ pc' = "trends_col3"
                    /\ error' = error
       ELSE /\ shown' = [shown EXCEPT !["age"] = "info"]
            /\ pc' = "trends_col3"
            /\ UNCHANGED <<age_data, error>>
    /\ UNCHANGED <<df, df_columns, selected_year, selected_country, latest,
                   previous, filtered_data_for_year, main_line_color,
                   indicators, top10, top10_abs, regional_avg_df, color_args,
                   color_out>>

\* lines 207-214: country_df and country are read
RatioTrendCol3 ==
    /\ pc = "trends_col3"
    /\ error = "none"
    /\ IF "country_df" \in GlobalNames /\ "country" \in GlobalNames
       THEN /\ shown' = [shown EXCEPT !["ratio_trend"] = "chart"]
            /\ pc' = "regional_col4"
            /\ error' = error
       ELSE /\ error' = "NameError"
            /\ pc' = pc
            /\ shown' = shown
    /\ UNCHANGED <<df, df_columns, selected_year, selected_country, latest,
                   previous, filtered_data_for_year, main_line_color,
                   indicators, age_data, top10, top10_abs, regional_avg_df,
                   color_args, color_out>>

-----------------------------------------------------------------------------
(* Regional analysis and rankings, lines 217-321 *)

\* head(10) of lines 234 and 276
TopN == 10

\* the region names of the model, in the alphabetical order groupby gives
Regions == <<"Africa", "Asia", "Europe">>

\* the country names of the model, in alphabetical order
Countries == <<"A", "B", "C", "D", "E", "F", "G", "H", "I", "J", "K", "L",
               "M", "N">>

RECURSIVE SeriesSum(_)
SeriesSum(s) == IF s = <<>> THEN Num(0) ELSE FAdd(Head(s), SeriesSum(Tail(s)))

\* Series.mean(): NaN cells are skipped, an empty series has the mean NaN
SeriesMean(s) ==
    LET present == SelectSeq(s, notna)
    IN  IF present = <<>> THEN NaN
        ELSE FDiv(SeriesSum(present), Num(Len(present)))

\* one row of the bar chart: the frame's row and the colour of its bar
Bars(rows, values) ==
    [i \in 1 .. Len(rows) |-> [row |-> rows[i], color |-> bar_colors(values, i)]]

\* line 234: one of the orders sort_values may give, cut to ten rows
Top10Of(slice, ord) == head(Reorder(slice, ord), TopN)

\* lines 223-231
MapCol4 ==
    /\ pc = "regional_col4"
    /\ error = "none"
    /\ shown' = [shown EXCEPT !["map"] = "chart"]
    /\ pc' = "regional_col5"
    /\ UNCHANGED <<df, df_columns, selected_year, selected_country, latest,
                   previous, filtered_data_for_year, main_line_color,
                   indicators, age_data, top10, top10_abs, regional_avg_df,
                   error, color_args, color_out>>

\* lines 233-248
Top10Col5 ==
    /\ pc = "regional_col5"
    /\ error = "none"
    /\ \E ord \in SortedOrders(DOMAIN filtered_data_for_year,
                  Column(filtered_data_for_year, "crude_mortality"),
                  FALSE) :
          LET rows == Top10Of(filtered_data_for_year, ord)
          IN  /\ top10' = Bars(rows, Column(rows, "crude_mortality"))
              /\ shown' = [shown EXCEPT !["top10"] =
                              IF rows # <<>> THEN "chart" ELSE "info"]
    /\ pc' = "regional_col6"
    /\ UNCHANGED <<df, df_columns, selected_year, selected_country, latest,
                   previous, filtered_data_for_year, main_line_color,
                   indicators, age_data, top10_abs, regional_avg_df, error,
                   color_args, color_out>>

\* groupby(key)[crude_mortality].mean().reset_index(): one row per key that
\* has a row, in the order of keys; rows whose key is missing form no group
GroupMeans(rows, keys, by) ==
    LET present == SelectSeq(keys,
                       LAMBDA k : \E i \in 1 .. Len(rows) : rows[i][by] = k)
    IN  [g \in 1 .. Len(present) |->
            [key |-> present[g],
             crude_mortality |->
                 SeriesMean(Column(
                     SelectSeq(rows, LAMBDA r : r[by] = present[g]),
                     "crude_mortality"))]]

\* lines 251-266
ShareCol6 ==
    /\ pc = "regional_col6"
    /\ error = "none"
    /\ shown' = [shown EXCEPT !["share"] =
                    IF top10 # <<>> THEN "chart" ELSE "info"]
    /\ pc' = "abs_suicides"
    /\ UNCHANGED <<df, df_columns, selected_year, selected_country, latest,
                   previous, filtered_data_for_year, main_line_color,
                   indicators, age_data, top10, top10_abs, regional_avg_df,
                   error, color_args, color_out>>

\* whether the frame has the column the script adds at line 95
HasEstimateColumn(rows) ==
    rows # <<>> /\ "estimated_total_suicides" \in DOMAIN rows[1]

\* lines 274-294
AbsSuicides ==
    /\ pc = "abs_suicides"
    /\ error = "none"
    /\ IF ~HasEstimateColumn(filtered_data_for_year)
       THEN \* line 276: sort_values by a column the frame does not have
            /\ error' = "KeyError"
            /\ pc' = pc
            /\ UNCHANGED <<top10_abs, shown>>
       ELSE /\ \E ord \in SortedOrders(DOMAIN filtered_data_for_year,
                       Column(filtered_data_for_year,
                              "estimated_total_suicides"),
                       FALSE) :
                  LET rows == Top10Of(filtered_data_for_year, ord)
                  IN  /\ top10_abs' = Bars(rows,
                             Column(rows, "estimated_total_suicides"))
                      /\ shown' = [shown EXCEPT !["top10_abs"] =
                                      IF rows # <<>> THEN "chart" ELSE "info"]
            /\ pc' = "regional_avg"
            /\ error' = error
    /\ UNCHANGED <<df, df_columns, selected_year, selected_country, latest,
                   previous, filtered_data_for_year, main_line_color,
                   indicators, age_data, top10, regional_avg_df, color_args,
                   color_out>>

\* line 298 and the dropna of line 299
RegionalMeans(slice) ==
    SelectSeq(GroupMeans(slice, Regions, "world_regions_according_to_owid"),
              LAMBDA g : notna(g.crude_mortality))

\* lines 296-318
RegionalAvg ==
    /\ pc = "regional_avg"
    /\ error = "none"
    /\ LET means == RegionalMeans(filtered_data_for_year)
       IN  \E ord \in SortedOrders(DOMAIN means,
                          Column(means, "crude_mortality"), FALSE) :
              LET rows == Reorder(means, ord)
              IN  /\ regional_avg_df' =
                        Bars(rows, Column(rows, "crude_mortality"))
                  /\ shown' = [shown EXCEPT !["regional_avg"] =
                                  IF rows # <<>> THEN "chart" ELSE "info"]
    /\ pc' = "download"
    /\ UNCHANGED <<df, df_columns, selected_year, selected_country, latest,
                   previous, filtered_data_for_year, main_line_color,
                   indicators, age_data, top10, top10_abs, error, color_args,
                   color_out>>

\* lines 320-321: filtered_df is read
Download ==
    /\ pc = "download"
    /\ error = "none"
    /\ IF "filtered_df" \in GlobalNames
       THEN /\ shown' = [shown EXCEPT !["download"] = "button"]
            /\ pc' = "done"
            /\ error' = error
       ELSE /\ error' = "NameError"
            /\ pc' = pc
            /\ shown' = shown
    /\ UNCHANGED <<df, df_columns, selected_year, selected_country, latest,
                   previous, filtered_data_for_year, main_line_color,
                   indicators, age_data, top10, top10_abs, regional_avg_df,
                   color_args, color_out>>

-----------------------------------------------------------------------------
(* The script run from line 70 to its first exception *)

\* the files of the indicator runs: up to MaxRows rows of two countries over
\* three years, with or without the ratio column
IndicatorRows(columns) ==
    {Row(c, y, m, p, "Europe", x) :
        c \in {"A", "B"},
        y \in (DefaultYear - 1) .. (DefaultYear + 1),
        m \in {NaN, Num(5), Num(12)},
        p \in {NaN, PInf, Num(150000)},
        x \in IF columns = <<>> THEN {<<>>} ELSE {<<NaN>>, <<Num(3)>>, <<Num(4)>>}}

AgeColumns ==
    << AgeCol("both_sexes", <<"5", "14">>),
       AgeCol("both_sexes", <<"15", "24">>),
       <<"death_rate_", "both_sexes", "aged_", "70+">>,
       AgeCol("males", <<"15", "24">>) >>

\* the files of the age runs: rows of one country and year that differ in their
\* age cells
AgeRows ==
    {Row("A", DefaultYear, Num(5), Num(150000), "Europe", <<a, b, c, Num(20)>>) :
        a \in {NaN, Num(12), Num(34)},
        b \in {NaN, Num(12), Num(34)},
        c \in {NaN, Num(34)}}

Files(rows) == UNION {[1 .. n -> rows] : n \in 0 .. MaxRows}

NoShown == [p \in Panels |-> "none"]
NoColorArgs == [value |-> None, min_val |-> NaN, max_val |-> NaN, color_scale |-> <<>>]

\* the state the script starts from once load_data has returned
Loaded(columns, csv) ==
    /\ df = load_data(csv)
    /\ df_columns = columns
    /\ selected_year = DefaultYear
    /\ selected_country = ""
    /\ latest = <<>>
    /\ previous = <<>>
    /\ filtered_data_for_year = <<>>
    /\ main_line_color = <<>>
    /\ indicators = NoIndicators
    /\ age_data = <<>>
    /\ top10 = <<>>
    /\ top10_abs = <<>>
    /\ regional_avg_df = <<>>
    /\ shown = NoShown
    /\ error = "none"
    /\ color_args = NoColorArgs
    /\ color_out = <<>>

Init ==
    /\ pc = "sidebar_year"
    /\ error = "none"
    /\ \E cols \in {<<>>, <<RatioCol>>, AgeColumns} :
          \E csv \in Files(IF cols = AgeColumns THEN AgeRows
                           ELSE IndicatorRows(cols)) :
             Loaded(cols, csv)

Next ==
    \/ SidebarYear
    \/ SidebarCountry
    \/ KeyIndicators
    \/ TrendCol1
    \/ AgeCol2
    \/ RatioTrendCol3

Spec == Init /\ [][Next]_vars

-----------------------------------------------------------------------------
(* The sections below line 214, entered as a run that passed lines 70-214   *)
(* enters them                                                              *)

\* rows of the year in a ranking file
MaxPanelRows == 12

\* row i of a ranking file of n rows: the mortality ascends, descends, or
\* descends with rows 1, 2 and rows TopN, TopN + 1 tied; the population is
\* missing nowhere, in the first row, in the last row or everywhere; the
\* regions alternate or leave gaps
PanelRow(i, n, mort, miss, reg) ==
    Row(Countries[i], DefaultYear,
        Num(CASE mort = "asc"  -> i
              [] mort = "desc" -> n + 1 - i
              [] OTHER         -> IF i = 2 THEN n
                                  ELSE IF i = TopN + 1 THEN n + 1 - TopN
                                  ELSE n + 1 - i),
        IF miss = "all" \/ (miss = "first" /\ i = 1) \/ (miss = "last" /\ i = n)
        THEN NaN ELSE Num(150000 * (1 + (i % 3))),
        IF reg = "two" THEN Regions[(i % 2) + 1]
        ELSE IF i % 4 = 0 THEN NoRegion ELSE Regions[(i % 3) + 1],
        <<>>)

PanelFiles ==
    {[i \in 1 .. n |-> PanelRow(i, n, mort, miss, reg)] :
        n \in 1 .. MaxPanelRows, mort \in {"asc", "desc", "tied"},
        miss \in {"none", "first", "last", "all"}, reg \in {"two", "gaps"}}

InitPanels ==
    /\ pc = "regional_col4"
    /\ \E csv \in PanelFiles :
          /\ df = load_data(csv)
          /\ \E country \in available_countries(df, DefaultYear) :
                /\ selected_country = country
                /\ latest = CountryYear(df, country, DefaultYear)
                /\ previous = CountryYear(df, country, DefaultYear - 1)
    /\ df_columns = <<>>
    /\ selected_year = DefaultYear
    /\ filtered_data_for_year =
          IF YearSlice(df, DefaultYear) # <<>>
          THEN WithEstimate(YearSlice(df, DefaultYear))
          ELSE <<>>
    /\ main_line_color = MainLineColor(df, latest)
    /\ indicators = IndicatorsOf(latest, previous, df_columns)
    /\ age_data = <<>>
    /\ top10 = <<>>
    /\ top10_abs = <<>>
    /\ regional_avg_df = <<>>
    /\ shown = [NoShown EXCEPT !["key_indicators"] = "metrics",
                               !["trend"] = "chart", !["age"] = "info",
                               !["ratio_trend"] = "chart"]
    /\ error = "none"
    /\ color_args = NoColorArgs
    /\ color_out = <<>>

NextPanels ==
    \/ MapCol4
    \/ Top10Col5
    \/ ShareCol6
    \/ AbsSuicides
    \/ RegionalAvg
    \/ Download

SpecPanels == InitPanels /\ [][NextPanels]_vars

-----------------------------------------------------------------------------
(* get_dynamic_color on its own *)

\* finite arguments run over 0 .. MaxVal, the value over -1 .. MaxVal + 1
MaxVal == 10

GreyScale ==
    << [stop |-> Fin(0, 2), color |-> Hex(0, 0, 0, 0, 0, 0)],
       [stop |-> Fin(1, 2), color |-> Hex(8, 0, 8, 0, 8, 0)],
       [stop |-> Fin(2, 2), color |-> Hex(15, 15, 15, 15, 15, 15)] >>

UnevenScale ==
    << [stop |-> Fin(0, 4), color |-> Hex(15, 15, 8, 0, 0, 0)],
       [stop |-> Fin(1, 4), color |-> Hex(1, 0, 2, 0, 3, 0)],
       [stop |-> Fin(4, 4), color |-> Hex(0, 0, 15, 15, 7, 15)] >>

Scales == {BLUE_COLOR_SCALE, GreyScale, UnevenScale}

ColorValues == {None, NaN, PInf, NInf} \cup {Num(i) : i \in (-1) .. (MaxVal + 1)}
ColorBounds == {NaN, PInf, NInf} \cup {Num(i) : i \in 0 .. MaxVal}

InitColor ==
    /\ pc = "color_call"
    /\ color_args \in [value : ColorValues, min_val : ColorBounds,
                       max_val : ColorBounds, color_scale : Scales]
    /\ color_out = <<>>
    /\ df = <<>>
    /\ df_columns = <<>>
    /\ selected_year = DefaultYear
    /\ selected_country = ""
    /\ latest = <<>>
    /\ previous = <<>>
    /\ filtered_data_for_year = <<>>
    /\ main_line_color = <<>>
    /\ indicators = NoIndicators
    /\ age_data = <<>>
    /\ top10 = <<>>
    /\ top10_abs = <<>>
    /\ regional_avg_df = <<>>
    /\ shown = NoShown
    /\ error = "none"

\* a call of get_dynamic_color, lines 33-62
CallColor ==
    /\ pc = "color_call"
    /\ color_out' = get_dynamic_color(color_args.value, color_args.min_val,
                                      color_args.max_val, color_args.color_scale)
    /\ pc' = "color_done"
    /\ UNCHANGED <<df, df_columns, selected_year, selected_country, latest,
                   previous, filtered_data_for_year, main_line_color,
                   indicators, age_data, top10, top10_abs, regional_avg_df,
                   shown, error, color_args>>

SpecColor == InitColor /\ [][CallColor]_vars

-----------------------------------------------------------------------------
(* Properties of get_dynamic_color, under SpecColor *)

ColorDone == pc = "color_done"

\* the colour at the middle index, len(scale) // 2, of the stop list
MidpointColor(scale) == scale[(Len(scale) \div 2) + 1].color
FirstColor(scale) == scale[1].color
LastColor(scale) == scale[Len(scale)].color

FiniteRange(a) ==
    IsFin(a.min_val) /\ IsFin(a.max_val) /\ a.min_val.n < a.max_val.n

\* the normalized, clamped position of a.value in a finite range is the stop
\* st; the arguments are integers, so this is a comparison of products
AtStop(a, st) ==
    CASE a.value.k = "pinf" -> st.n = st.d
      [] a.value.k = "ninf" -> st.n = 0
      [] a.value.k = "fin" ->
            IF a.value.n >= a.max_val.n THEN st.n = st.d
            ELSE IF a.value.n <= a.min_val.n THEN st.n = 0
            ELSE (a.value.n - a.min_val.n) * st.d
                     = st.n * (a.max_val.n - a.min_val.n)
      [] OTHER -> FALSE

C5_ExactAtStops ==
    (ColorDone /\ FiniteRange(color_args)) =>
        \A i \in DOMAIN color_args.color_scale :
            AtStop(color_args, color_args.color_scale[i].stop)
                => color_out = color_args.color_scale[i].color

\* value = 5 in [0, 10] on the 0.0 / 0.5 / 1.0 scale gives #808080
C5_Witness ==
    /\ ColorDone
    /\ color_args.color_scale = GreyScale
    /\ color_args.value = Num(5)
    /\ color_args.min_val = Num(0)
    /\ color_args.max_val = Num(10)
    /\ color_out = Hex(8, 0, 8, 0, 8, 0)

\* a colour string of six hex digits, each channel an integer in 0 .. 255
FullySpecified(c) ==
    /\ Len(c) = 6
    /\ \A i \in 1 .. 6 : c[i] \in 0 .. 15
    /\ \A j \in 1 .. 3 : hex_to_rgb(c)[j] \in 0 .. 255

\* C6: every call returns a fully specified colour with channels in 0 .. 255;
\* a value below (above) a finite range gets the colour of t = 0 (t = 1), and
\* NaN among the arguments gives the colour of a clamped position or the
\* fallback colour.
C6_TotalAndClamped ==
    ColorDone =>
        /\ FullySpecified(color_out)
        /\ (FiniteRange(color_args) /\ notna(color_args.value)
                /\ FLt(color_args.value, color_args.min_val))
            => color_out = FirstColor(color_args.color_scale)
        /\ (FiniteRange(color_args) /\ notna(color_args.value)
                /\ FGt(color_args.value, color_args.max_val))
            => color_out = LastColor(color_args.color_scale)
        /\ (\E x \in {color_args.value, color_args.min_val, color_args.max_val} :
                x.k = "nan")
            => color_out \in {FirstColor(color_args.color_scale),
                              LastColor(color_args.color_scale),
                              MidpointColor(color_args.color_scale)}

C6_Witness ==
    /\ ColorDone
    /\ color_args.value = NInf
    /\ FiniteRange(color_args)
    /\ color_args.color_scale = BLUE_COLOR_SCALE
    /\ color_out = Hex(14, 0, 15, 2, 15, 7)

-----------------------------------------------------------------------------
(* Properties of the script run, under Spec *)

\* the key-indicator section has run (to its end, or to the exception that
\* cut it)
KeyIndicatorsRan == shown["key_indicators"] # "none"

\* no population of the file is infinite
PopulationsFiniteOrAbsent ==
    \A i \in 1 .. Len(df) : IsFin(df[i].population) \/ isna(df[i].population)

\* no two rows of the file share a country and a year
NoDuplicateRows ==
    \A i, j \in 1 .. Len(df) :
        (df[i].country = df[j].country /\ df[i].year = df[j].year) => i = j

\* a delta is a number when both operands are there and "unavailable" (None,
\* shown as N/A) otherwise
DeltaOk(delta, both) == IF both THEN IsFin(delta) ELSE delta = None

RatioCell(rows) == rows[1].extra[IndexOf(df_columns, RatioCol)]

\* C1 as stated, on files without an infinite population: once the key
\* indicators have run for a query, nothing was raised and each of the three
\* deltas is "unavailable" when there is no record for the previous year or
\* the field is absent in either record, and a finite number otherwise (never
\* NaN).
C1_DeltasUnavailableOrNumber ==
    (KeyIndicatorsRan /\ PopulationsFiniteOrAbsent) =>
        /\ shown["key_indicators"] = "metrics"
        /\ DeltaOk(indicators.crude_delta,
                   /\ previous # <<>>
                   /\ notna(latest[1].crude_mortality)
                   /\ notna(previous[1].crude_mortality))
        /\ DeltaOk(indicators.ratio_delta,
                   /\ previous # <<>>
                   /\ RatioCol \in Range(df_columns)
                   /\ notna(RatioCell(latest))
                   /\ notna(RatioCell(previous)))
        /\ DeltaOk(indicators.total_delta,
                   /\ previous # <<>>
                   /\ notna(latest[1].population)
                   /\ notna(previous[1].population))

\* what C2 says the estimate of a record is: "unavailable" when population or
\* crude_mortality is absent or not finite, else the quotient cut to an integer
ExpectedEstimate(r) ==
    IF ~IsFin(r.population) \/ ~IsFin(r.crude_mortality) THEN None
    ELSE Num((r.crude_mortality.n * r.population.n)
                \div (100000 * r.crude_mortality.d * r.population.d))

\* C2 as stated: nothing is raised while the estimates are computed (line 95
\* for the rows of the year, lines 134-140 for the selected records), the
\* estimate shown for the selected record is "unavailable" when its population
\* or crude_mortality is absent or not finite, and otherwise it is
\* crude_mortality * population / 100000 cut to an integer.
C2_EstimateUnavailableOrTruncated ==
    /\ error \notin {"IntCastingNaNError", "OverflowError"}
    /\ \A i \in 1 .. Len(filtered_data_for_year) :
          "estimated_total_suicides" \in DOMAIN filtered_data_for_year[i]
              => filtered_data_for_year[i].estimated_total_suicides
                     = ExpectedEstimate(filtered_data_for_year[i])
    /\ KeyIndicatorsRan =>
          /\ shown["key_indicators"] = "metrics"
          /\ indicators.total_value = ExpectedEstimate(latest[1])

\* the run is over: it raised, or it reached the end of the script
RunOver == error # "none" \/ pc = "done"

\* C3 as stated, on files without infinite populations and duplicate rows: a
\* run for a query that holds a record ends with every section delivered, the
\* export last, and with no exception.
C3_RunDeliversEveryOutput ==
    (RunOver /\ latest # <<>> /\ PopulationsFiniteOrAbsent /\ NoDuplicateRows)
        => /\ error = "none"
           /\ \A p \in Panels \ {"sidebar"} : shown[p] # "none"

\* the age panel has run (to its end, or to the exception that cut it)
AgePanelRan ==
    pc = "trends_col3" \/ (pc = "trends_col2" /\ error # "none")

\* the both-sexes age fields of the selected record that hold a value
PresentAgeFields ==
    {i \in age_cols(df_columns) : notna(latest[1].extra[i])}

\* C7 as stated, for a selection of one record: the age series has exactly one
\* entry per both-sexes age field that holds a value, with that value, in
\* ascending order of value; when no field matches or all values are absent
\* the series is empty and the panel reports "no data"; nothing is raised.
C7_AgeSeriesOnePerPresentField ==
    (AgePanelRan /\ Len(latest) = 1) =>
        /\ error = "none"
        /\ Len(age_data) = Cardinality(PresentAgeFields)
        /\ {age_data[k].column : k \in 1 .. Len(age_data)} = PresentAgeFields
        /\ \A k \in 1 .. Len(age_data) :
              age_data[k].rate = latest[1].extra[age_data[k].column]
        /\ \A k \in 1 .. (Len(age_data) - 1) :
              FLe(age_data[k].rate, age_data[k + 1].rate)
        /\ shown["age"] = IF PresentAgeFields = {} THEN "info" ELSE "chart"

-----------------------------------------------------------------------------
(* Properties of the rankings, under SpecPanels *)

Top10Ran == pc \in {"regional_col6", "abs_suicides", "regional_avg", "download"}
RegionalAvgRan == pc = "download"

RegionRows(g) ==
    SelectSeq(df_by_year(df, selected_year),
              LAMBDA r : r.world_regions_according_to_owid = g
                         /\ notna(r.crude_mortality))

====
